---- MODULE Spec2Model ----
(***************************************************************************)
(* A model of f5_tts_mlx/dit.py: the text encoder (TextEmbedding), the     *)
(* input fuser (InputEmbedding), the two AdaLN-Zero modulation units, the  *)
(* transformer block (DiTBlock) and the backbone (DiT).                    *)
(*                                                                         *)
(* Tensors are sequences: a (b, n) tensor is a sequence of b rows, each a  *)
(* sequence of n entries.  The channel axis is one entry wide (mel_dim,    *)
(* text_dim and dim are 1), and reals are integers.  The kernels imported  *)
(* from f5_tts_mlx.modules (attention, feed-forward, the timestep          *)
(* embedding, the convolutional position embedding, the rotary table, the  *)
(* ConvNeXt text blocks) are fixed integer functions that stand for them.  *)
(***************************************************************************)
EXTENDS Integers, Sequences, FiniteSets, TLC

(***************************************************************************)
(* Bounds of the model.                                                    *)
(***************************************************************************)
MaxBatch == 2

MaxSeq == 2

MaxText == 3

MaxDepth == 2

NumEmbeds == 2

VARIABLES
    \* ---- TextEmbedding.__call__ (one call, statement by statement) ----
    tpc,            \* position in TextEmbedding.__call__
    text,           \* argument text: int (b, nt), tokens -1 .. NumEmbeds-1
    seq_len,        \* argument seq_len
    drop_text,      \* argument drop_text
    conv_layers,    \* constructor argument conv_layers
    text_len,       \* local text_len (line 52)
    cur,            \* the local the code keeps rebinding as "text"
    ids,            \* the ids handed to self.text_embed (line 64)
    tout,           \* the returned embedding
    \* ---- DiT ----
    pc,             \* position in DiT.__init__ / DiT.__call__
    depth,          \* constructor argument depth (self.depth)
    long_skip,      \* constructor argument long_skip_connection
    zero_mod,       \* TRUE when every modulation projection is zero
    blocks,         \* len(self.transformer_blocks)
    x_in,           \* argument x
    cond,           \* argument cond
    time,           \* argument time: [ndim |-> 0, val |-> s] or [ndim |-> 1, val |-> <<..>>]
    drop_audio_cond,\* argument drop_audio_cond
    mask,           \* argument mask (opaque here, handed to attention)
    t,              \* local t
    text_embed,     \* local text_embed
    x,              \* local x
    rope,           \* local rope (0 while unbound)
    residual,       \* local residual (<<>> while unbound)
    k,              \* index of the next block of the for loop
    time_calls,     \* number of calls of self.time_embed in this call
    rope_calls,     \* number of calls of forward_from_seq_len in this call
    block_log,      \* per block run: what it received and returned
    final_log,      \* what self.norm_out received and returned (at most one entry)
    trace,          \* stages run so far, in order
    output          \* the returned tensor

textVars == <<tpc, text, seq_len, drop_text, conv_layers, text_len, cur, ids, tout>>

ditVars == <<pc, depth, long_skip, zero_mod, blocks, x_in, cond, time,
             drop_audio_cond, mask, t, text_embed, x, rope, residual, k,
             time_calls, rope_calls, block_log, final_log, trace, output>>

vars == <<textVars, ditVars>>

Min(a, b) == IF a < b THEN a ELSE b

Max(a, b) == IF a > b THEN a ELSE b

(***************************************************************************)
(* Tensor helpers (mlx.core).                                              *)
(***************************************************************************)
\* text.shape[0], text.shape[1]
Batch(a) == Len(a)

Width(a) == Len(a[1])

\* mx.zeros_like
ZerosLike(a) == [i \in 1..Len(a) |-> [j \in 1..Len(a[i]) |-> 0]]

(***************************************************************************)
(* TextEmbedding                                                           *)
(***************************************************************************)
\* text + 1 (lines 53-55): 0 becomes the filler id
ShiftIdsNoShift(a) == a

ShiftIds(a) == [i \in 1..Len(a) |-> [j \in 1..Len(a[i]) |-> a[i][j] + 1]]

\* text[:, :seq_len] (lines 56-58)
Curtail(a, n) == [i \in 1..Len(a) |-> SubSeq(a[i], 1, Min(n, Len(a[i])))]

\* mx.pad rejects a negative pad width (line 59 passes seq_len - text_len)
PadRaises(w) == w < 0

\* mx.pad(text, [(0, 0), (0, w)], constant_values=0) for w >= 0
PadRight(a, w) == [i \in 1..Len(a) |-> a[i] \o [j \in 1..w |-> 0]]

\* if drop_text: text = mx.zeros_like(text) (lines 61-62)
DropTextIgnored(a, drop) == a

DropText(a, drop) == IF drop THEN ZerosLike(a) ELSE a

\* self.text_embed = nn.Embedding(text_num_embeds + 1, text_dim): the row of
\* id i; an id outside the table reads no row of it
EmbedRow(i) == IF i \in 0..NumEmbeds THEN 10 + 3 * i ELSE -1

\* self.text_embed(text) (line 64)
EmbedLookup(a) == [i \in 1..Len(a) |-> [j \in 1..Len(a[i]) |-> EmbedRow(a[i][j])]]

\* self._freqs_cis[pos_idx] with batch_start = 0 (lines 69-73): position j-1
TextPosEmbed(j) == j - 1

\* one ConvNeXtV2Block
ConvNeXtV2Block(v) == 2 * v + 1

RECURSIVE TextBlocks(_, _)
TextBlocks(v, layers) ==
    IF layers <= 0 THEN v ELSE TextBlocks(ConvNeXtV2Block(v), layers - 1)

\* lines 67-77: text + text_pos_embed, then the conv blocks
ExtraModeling(a, layers) ==
    [i \in 1..Len(a) |->
        [j \in 1..Len(a[i]) |-> TextBlocks(a[i][j] + TextPosEmbed(j), layers)]]

\* TextEmbedding.__call__ as a function of its arguments
TextEmbeddingCall(txt, n, drop, layers) ==
    LET shifted == ShiftIds(txt)
        cut     == Curtail(shifted, n)
        w       == n - Width(txt)
    IN  IF PadRaises(w)
        THEN [status |-> "error", ids |-> <<>>, out |-> <<>>]
        ELSE LET padded == PadRight(cut, w)
                 looked == DropText(padded, drop)
                 emb    == EmbedLookup(looked)
             IN  [status |-> "ok",
                  ids    |-> looked,
                  out    |-> IF layers > 0 THEN ExtraModeling(emb, layers) ELSE emb]

(***************************************************************************)
(* InputEmbedding                                                          *)
(***************************************************************************)
\* if drop_audio_cond: cond = mx.zeros_like(cond) (lines 98-99)
DropCondIgnored(c, drop) == c

DropCond(c, drop) == IF drop THEN ZerosLike(c) ELSE c

\* self.proj = nn.Linear(mel_dim * 2 + text_dim, out_dim) applied to the
\* concatenation (x, cond, text_embed) of one position (lines 88, 101)
InputProj(xv, cv, tv) == xv + 2 * cv + 3 * tv + 1

\* self.conv_pos_embed: a convolution along the sequence
ConvPositionEmbedding(row, j) ==
    (2 * row[j] + (IF j > 1 THEN row[j - 1] ELSE 0)) % 5

\* InputEmbedding.__call__ (lines 91-103)
InputEmbedding(xa, ca, te, drop) ==
    LET c == DropCond(ca, drop)
        h == [i \in 1..Len(xa) |->
                [j \in 1..Len(xa[i]) |-> InputProj(xa[i][j], c[i][j], te[i][j])]]
    IN  [i \in 1..Len(h) |->
            [j \in 1..Len(h[i]) |-> ConvPositionEmbedding(h[i], j) + h[i][j]]]

(***************************************************************************)
(* AdaLayerNormZero, AdaLayerNormZero_Final, DiTBlock                      *)
(***************************************************************************)
\* nn.SiLU on the conditioning embedding
SiLU(v) == IF v > 0 THEN v ELSE 0

\* nn.LayerNorm(dim, affine=False): bounded and, in this model, never zero
LayerNorm(v) == (v % 3) + 1

\* output c of the modulation projection self.linear of a layer (layer 0 is
\* the final norm, layer l >= 1 the l-th block), for the input e
AdaLinear(zero, layer, c, e) == IF zero THEN 0 ELSE e + ((c + layer) % 3)

\* norm * (1 + scale) + shift (lines 123-125, 144-146, 182-184)
ModulateNoOne(nv, scale, shift) == nv * scale + shift

Modulate(nv, scale, shift) == nv * (1 + scale) + shift

\* x + gate * branch (lines 180, 186)
Gated(xv, gate, branch) == xv + gate * branch

RECURSIVE SumKept(_, _, _)
SumKept(row, keep, j) ==
    IF j = 0 THEN 0
    ELSE (IF ~keep.present \/ keep.keep[j] THEN row[j] ELSE 0)
         + SumKept(row, keep, j - 1)

\* self.attn on one batch row: position j attends to the kept positions
Attention(row, j, keep, rp) == (SumKept(row, keep, Len(row)) + row[j] + rp) % 7

\* self.ff, position-wise
FeedForward(v) == (3 * v + 2) % 5

\* AdaLayerNormZero.__call__ (lines 117-126) for one batch row: the six
\* chunks of mx.split, in the order of line 119
AdaParams(zero, layer, e) == [c \in 1..6 |-> AdaLinear(zero, layer, c, SiLU(e))]

\* DiTBlock.__call__ (lines 170-188) for one batch row
BlockRow(zero, layer, row, e, keep, rp) ==
    LET p     == AdaParams(zero, layer, e)
        norm  == [j \in 1..Len(row) |-> Modulate(LayerNorm(row[j]), p[2], p[1])]
        attn  == [j \in 1..Len(row) |-> Attention(norm, j, keep, rp)]
        x1    == [j \in 1..Len(row) |-> Gated(row[j], p[3], attn[j])]
        norm2 == [j \in 1..Len(row) |-> Modulate(LayerNorm(x1[j]), p[5], p[4])]
    IN  [j \in 1..Len(row) |-> Gated(x1[j], p[6], FeedForward(norm2[j]))]

\* mask is None, or a bool (b, n) tensor: row i of it
NoMask == [present |-> FALSE, keep |-> <<>>]

MaskRow(msk, i) == IF msk.present THEN [present |-> TRUE, keep |-> msk.keep[i]] ELSE NoMask

DiTBlock(zero, layer, xa, ta, msk, rp) ==
    [i \in 1..Len(xa) |->
        BlockRow(zero, layer, xa[i], ta[i], MaskRow(msk, i), rp)]

\* AdaLayerNormZero_Final.__call__ (lines 140-147): scale, shift = split(emb, 2)
AdaLayerNormZero_Final(zero, xa, ta) ==
    [i \in 1..Len(xa) |->
        [j \in 1..Len(xa[i]) |->
            Modulate(LayerNorm(xa[i][j]),
                     AdaLinear(zero, 0, 1, SiLU(ta[i])),
                     AdaLinear(zero, 0, 2, SiLU(ta[i])))]]

(***************************************************************************)
(* DiT                                                                     *)
(***************************************************************************)
\* len([DiTBlock(...) for _ in range(depth)]) (lines 225-234)
RangeLenAbs(d) == IF d < 0 THEN -d ELSE d

RangeLen(d) == Max(d, 0)

\* if time.ndim == 0: time = repeat(time, " -> b", b=batch) (lines 253-254)
BroadcastTimeFirstOnly(tm, b) ==
    IF tm.ndim = 0 THEN [i \in 1..b |-> IF i = 1 THEN tm.val ELSE 0] ELSE tm.val

BroadcastTime(tm, b) == IF tm.ndim = 0 THEN [i \in 1..b |-> tm.val] ELSE tm.val

\* self.time_embed on a (b,) vector
TimestepEmbedding(tv) == [i \in 1..Len(tv) |-> 2 * tv[i] + 1]

\* self.rotary_embed.forward_from_seq_len(seq_len)
RotaryTable(n) == 3 + n

\* self.long_skip_connection = nn.Linear(dim * 2, dim, bias=False) on a pair
SkipLinear(pair) == 2 * pair[1] + 3 * pair[2]

\* self.long_skip_connection(mx.concatenate((x, residual), axis=-1)) (line 270)
MergeSkipSwapped(xa, res) ==
    [i \in 1..Len(xa) |-> [j \in 1..Len(xa[i]) |-> SkipLinear(<<res[i][j], xa[i][j]>>)]]

MergeSkip(xa, res) ==
    [i \in 1..Len(xa) |-> [j \in 1..Len(xa[i]) |-> SkipLinear(<<xa[i][j], res[i][j]>>)]]

\* self.proj_out = nn.Linear(dim, mel_dim)
ProjOutRow(v) == 3 * v + 1

ProjOut(xa) == [i \in 1..Len(xa) |-> [j \in 1..Len(xa[i]) |-> ProjOutRow(xa[i][j])]]

\* the for loop of lines 266-267 from block l on
RECURSIVE RunBlocks(_, _, _, _, _, _, _)
RunBlocks(zero, n, l, xa, ta, msk, rp) ==
    IF l > n THEN xa
    ELSE RunBlocks(zero, n, l + 1, DiTBlock(zero, l, xa, ta, msk, rp), ta, msk, rp)

\* DiT.__call__ of a backbone (skip, zero, n blocks, layers) as a function of
\* its arguments
DiTCall(skip, zero, n, layers, xa, ca, txt, tm, dac, dt, msk) ==
    LET sl == Width(xa)
        ta == TimestepEmbedding(BroadcastTime(tm, Batch(xa)))
        te == TextEmbeddingCall(txt, sl, dt, layers)
    IN  IF te.status = "error"
        THEN [status |-> "error", out |-> <<>>]
        ELSE LET fused  == InputEmbedding(xa, ca, te.out, dac)
                 rp     == RotaryTable(sl)
                 after  == RunBlocks(zero, n, 1, fused, ta, msk, rp)
                 merged == IF skip THEN MergeSkip(after, fused) ELSE after
             IN  [status |-> "ok",
                  out    |-> ProjOut(AdaLayerNormZero_Final(zero, merged, ta))]

(***************************************************************************)
(* Inputs.  A text of batch b is a row of nt tokens and its rotations      *)
(* (row i holds the tokens of row 1 moved i-1 places round the vocabulary, *)
(* filler included), so that rows of one batch differ.                     *)
(***************************************************************************)
Tokens == -1 .. NumEmbeds - 1

Rot(tok, s) == ((tok + 1 + s) % (NumEmbeds + 1)) - 1

TextOf(row, b) == [i \in 1..b |-> [j \in 1..Len(row) |-> Rot(row[j], i - 1)]]

TextInputs ==
    UNION { { TextOf(row, b) : row \in [1..nt -> Tokens] } :
            b \in 1..MaxBatch, nt \in 0..MaxText }

\* the text of the same shape that holds only the filler token -1
FillerText(txt) == [i \in 1..Len(txt) |-> [j \in 1..Len(txt[i]) |-> -1]]

\* the DiT variables while no backbone is involved
DitIdle ==
    /\ pc = "none" /\ depth = 0 /\ long_skip = FALSE /\ zero_mod = FALSE
    /\ blocks = 0 /\ x_in = <<>> /\ cond = <<>> /\ time = [ndim |-> 0, val |-> 0]
    /\ drop_audio_cond = FALSE /\ mask = NoMask /\ t = <<>> /\ text_embed = <<>>
    /\ x = <<>> /\ rope = 0 /\ residual = <<>> /\ k = 0
    /\ time_calls = 0 /\ rope_calls = 0 /\ block_log = <<>> /\ final_log = <<>>
    /\ trace = <<>> /\ output = <<>>

(***************************************************************************)
(* TextEmbedding.__call__, statement by statement.                         *)
(***************************************************************************)
InitText ==
    /\ tpc = "entry"
    /\ text \in TextInputs
    /\ seq_len \in 0..MaxSeq
    /\ drop_text \in BOOLEAN
    /\ conv_layers \in {0, 1}
    /\ text_len = -1
    /\ cur = text
    /\ ids = <<>>
    /\ tout = <<>>
    /\ DitIdle

\* lines 52-55
TE_Shift ==
    /\ tpc = "entry"
    /\ text_len' = Width(text)
    /\ cur' = ShiftIds(cur)
    /\ tpc' = "shifted"
    /\ UNCHANGED <<text, seq_len, drop_text, conv_layers, ids, tout, ditVars>>

\* lines 56-58
TE_Curtail ==
    /\ tpc = "shifted"
    /\ cur' = Curtail(cur, seq_len)
    /\ tpc' = "curtailed"
    /\ UNCHANGED <<text, seq_len, drop_text, conv_layers, text_len, ids, tout, ditVars>>

\* line 59
TE_Pad ==
    /\ tpc = "curtailed"
    /\ IF PadRaises(seq_len - text_len)
       THEN /\ tpc' = "error"
            /\ cur' = cur
       ELSE /\ tpc' = "padded"
            /\ cur' = PadRight(cur, seq_len - text_len)
    /\ UNCHANGED <<text, seq_len, drop_text, conv_layers, text_len, ids, tout, ditVars>>

\* lines 61-62
TE_Drop ==
    /\ tpc = "padded"
    /\ cur' = DropText(cur, drop_text)
    /\ tpc' = "dropped"
    /\ UNCHANGED <<text, seq_len, drop_text, conv_layers, text_len, ids, tout, ditVars>>

\* line 64, and the return of line 79 when there is no extra modeling
TE_Lookup ==
    /\ tpc = "dropped"
    /\ ids' = cur
    /\ cur' = EmbedLookup(cur)
    /\ IF conv_layers > 0
       THEN tpc' = "extra" /\ tout' = tout
       ELSE tpc' = "done" /\ tout' = cur'
    /\ UNCHANGED <<text, seq_len, drop_text, conv_layers, text_len, ditVars>>

\* lines 67-79
TE_Extra ==
    /\ tpc = "extra"
    /\ cur' = ExtraModeling(cur, conv_layers)
    /\ tout' = cur'
    /\ tpc' = "done"
    /\ UNCHANGED <<text, seq_len, drop_text, conv_layers, text_len, ids, ditVars>>

NextText ==
    \/ TE_Shift
    \/ TE_Curtail
    \/ TE_Pad
    \/ TE_Drop
    \/ TE_Lookup
    \/ TE_Extra

SpecText == InitText /\ [][NextText]_vars

(***************************************************************************)
(* DiT.__init__ and one DiT.__call__, stage by stage.                      *)
(***************************************************************************)
\* the variables of the statement-by-statement text encoder, unused here
TextIdle == tpc = "none" /\ text_len = -1 /\ cur = <<>> /\ ids = <<>> /\ tout = <<>>

\* (b, n) frames for x and cond
Frames(b, n) == { [i \in 1..b |-> [j \in 1..n |-> (i * j + s) % 3]] : s \in 0..1 }

\* texts of nt tokens: only filler, or the vocabulary in turn
DitTexts(b, nt) ==
    { TextOf(row, b) : row \in { [j \in 1..nt |-> -1],
                                 [j \in 1..nt |-> (j % (NumEmbeds + 1)) - 1] } }

\* a scalar time, or a (b,) vector
Times(b) ==
    { [ndim |-> 0, val |-> s] : s \in 0..1 }
    \cup { [ndim |-> 1, val |-> [i \in 1..b |-> s]] : s \in 0..1 }
    \cup { [ndim |-> 1, val |-> [i \in 1..b |-> i % 2]] }

\* no mask, or a (b, n) mask that keeps the first frame of every row only
Masks(b, n) ==
    { NoMask, [present |-> TRUE, keep |-> [i \in 1..b |-> [j \in 1..n |-> j = 1]]] }

Init ==
    /\ pc = "new"
    /\ depth \in -1..MaxDepth
    /\ long_skip \in BOOLEAN
    /\ zero_mod \in BOOLEAN
    /\ conv_layers = 0
    /\ blocks = 0
    /\ x_in = <<>> /\ cond = <<>> /\ text = <<>> /\ time = [ndim |-> 0, val |-> 0]
    /\ drop_audio_cond = FALSE /\ drop_text = FALSE /\ mask = NoMask
    /\ seq_len = 0 /\ t = <<>> /\ text_embed = <<>> /\ x = <<>>
    /\ rope = 0 /\ residual = <<>> /\ k = 0
    /\ time_calls = 0 /\ rope_calls = 0 /\ block_log = <<>> /\ final_log = <<>>
    /\ trace = <<>> /\ output = <<>>
    /\ TextIdle

cfgVars == <<depth, long_skip, zero_mod, conv_layers, blocks>>

argVars == <<x_in, cond, text, time, drop_audio_cond, drop_text, mask, seq_len>>

idleTextVars == <<tpc, text_len, cur, ids, tout>>

\* DiT.__init__ (lines 195-240): no argument is checked, the block list is
\* built over range(depth)
Construct ==
    /\ pc = "new"
    /\ blocks' = RangeLen(depth)
    /\ pc' = "ready"
    /\ UNCHANGED <<depth, long_skip, zero_mod, conv_layers, argVars, t, text_embed, x,
                   rope, residual, k, time_calls, rope_calls, block_log, final_log,
                   trace, output, idleTextVars>>

\* entry of DiT.__call__ (lines 242-252)
Call ==
    /\ pc = "ready"
    /\ \E b \in 1..MaxBatch, n \in 1..MaxSeq :
          /\ x_in' \in Frames(b, n)
          /\ cond' \in Frames(b, n)
          /\ \E nt \in {n - 1, n, n + 1} \cap 0..MaxText : text' \in DitTexts(b, nt)
          /\ time' \in Times(b)
          /\ mask' \in Masks(b, n)
          /\ seq_len' = n
    /\ drop_audio_cond' \in BOOLEAN
    /\ drop_text' \in BOOLEAN
    /\ x' = x_in'
    /\ pc' = "time"
    /\ UNCHANGED <<cfgVars, t, text_embed, rope, residual, k, time_calls, rope_calls,
                   block_log, final_log, trace, output, idleTextVars>>

\* lines 253-257
D_TimeEmbed ==
    /\ pc = "time"
    /\ t' = TimestepEmbedding(BroadcastTime(time, Batch(x)))
    /\ time_calls' = time_calls + 1
    /\ trace' = Append(trace, "time_embed")
    /\ pc' = "text"
    /\ UNCHANGED <<cfgVars, argVars, text_embed, x, rope, residual, k, rope_calls,
                   block_log, final_log, output, idleTextVars>>

\* line 258
D_TextEmbed ==
    /\ pc = "text"
    /\ LET r == TextEmbeddingCall(text, seq_len, drop_text, conv_layers)
       IN  IF r.status = "error"
           THEN pc' = "error" /\ text_embed' = text_embed /\ trace' = trace
           ELSE pc' = "input" /\ text_embed' = r.out /\ trace' = Append(trace, "text_embed")
    /\ UNCHANGED <<cfgVars, argVars, t, x, rope, residual, k, time_calls, rope_calls,
                   block_log, final_log, output, idleTextVars>>

\* line 259
D_InputEmbed ==
    /\ pc = "input"
    /\ x' = InputEmbedding(x, cond, text_embed, drop_audio_cond)
    /\ trace' = Append(trace, "input_embed")
    /\ pc' = "rope"
    /\ UNCHANGED <<cfgVars, argVars, t, text_embed, rope, residual, k, time_calls,
                   rope_calls, block_log, final_log, output, idleTextVars>>

\* lines 261-264
D_Rope ==
    /\ pc = "rope"
    /\ rope' = RotaryTable(seq_len)
    /\ rope_calls' = rope_calls + 1
    /\ residual' = IF long_skip THEN x ELSE residual
    /\ k' = 1
    /\ trace' = Append(trace, "rope")
    /\ pc' = "blocks"
    /\ UNCHANGED <<cfgVars, argVars, t, text_embed, x, time_calls, block_log,
                   final_log, output, idleTextVars>>

\* one iteration of the for loop (lines 266-267)
D_BlockRecomputes ==
    /\ pc = "blocks"
    /\ k <= blocks
    /\ t' = TimestepEmbedding(BroadcastTime(time, Batch(x)))
    /\ time_calls' = time_calls + 1
    /\ x' = DiTBlock(zero_mod, k, x, t', mask, rope)
    /\ block_log' = Append(block_log,
                           [block |-> k, x |-> x, t |-> t', mask |-> mask,
                            rope |-> rope, out |-> x'])
    /\ k' = k + 1
    /\ trace' = Append(trace, "block")
    /\ UNCHANGED <<pc, cfgVars, argVars, text_embed, rope, residual,
                   rope_calls, final_log, output, idleTextVars>>

D_Block ==
    /\ pc = "blocks"
    /\ k <= blocks
    /\ x' = DiTBlock(zero_mod, k, x, t, mask, rope)
    /\ block_log' = Append(block_log,
                           [block |-> k, x |-> x, t |-> t, mask |-> mask,
                            rope |-> rope, out |-> x'])
    /\ k' = k + 1
    /\ trace' = Append(trace, "block")
    /\ UNCHANGED <<pc, cfgVars, argVars, t, text_embed, rope, residual, time_calls,
                   rope_calls, final_log, output, idleTextVars>>

\* lines 269-270, after the loop
D_LongSkip ==
    /\ pc = "blocks"
    /\ k > blocks
    /\ IF long_skip
       THEN x' = MergeSkip(x, residual) /\ trace' = Append(trace, "long_skip")
       ELSE x' = x /\ trace' = trace
    /\ pc' = "norm"
    /\ UNCHANGED <<cfgVars, argVars, t, text_embed, rope, residual, k, time_calls,
                   rope_calls, block_log, final_log, output, idleTextVars>>

\* line 272
D_NormOut ==
    /\ pc = "norm"
    /\ x' = AdaLayerNormZero_Final(zero_mod, x, t)
    /\ final_log' = <<[x |-> x, t |-> t, out |-> x']>>
    /\ trace' = Append(trace, "norm_out")
    /\ pc' = "proj"
    /\ UNCHANGED <<cfgVars, argVars, t, text_embed, rope, residual, k, time_calls,
                   rope_calls, block_log, output, idleTextVars>>

\* lines 273-275
D_ProjOut ==
    /\ pc = "proj"
    /\ output' = ProjOut(x)
    /\ trace' = Append(trace, "proj_out")
    /\ pc' = "done"
    /\ UNCHANGED <<cfgVars, argVars, t, text_embed, x, rope, residual, k, time_calls,
                   rope_calls, block_log, final_log, idleTextVars>>

Next ==
    \/ Construct
    \/ Call
    \/ D_TimeEmbed
    \/ D_TextEmbed
    \/ D_InputEmbed
    \/ D_Rope
    \/ D_Block
    \/ D_LongSkip
    \/ D_NormOut
    \/ D_ProjOut

Spec == Init /\ [][Next]_vars

\* the call has returned or raised
TextReturned == tpc = "done"

TextRaised == tpc = "error"

\* the time axis of a (b, n) tensor has exactly n positions in every row
TimeAxisIs(a, n) == \A i \in 1..Len(a) : Len(a[i]) = n

\* the id the claim expects at row i, position j (1-based) with drop_text false
ExpectedId(txt, i, j) == IF j <= Len(txt[i]) THEN txt[i][j] + 1 ELSE 0

(***************************************************************************)
(* C1: for every nt >= 0 and n >= 0, including nt > n, the call completes  *)
(* without raising and returns a sequence with exactly n positions.        *)
(***************************************************************************)
C1_NeverRaises ==
    /\ ~TextRaised
    /\ TextReturned => (Len(tout) = Batch(text) /\ TimeAxisIs(tout, seq_len))

(***************************************************************************)
(* C2: with drop_text false the call returns, and the id looked up at      *)
(* position i is text[i] + 1 for i < min(nt, n) and 0 for nt <= i < n,     *)
(* also when nt > n.                                                       *)
(***************************************************************************)
C2_IdsShiftedTruncatedPadded ==
    (~drop_text /\ tpc \in {"error", "done"}) =>
        /\ TextReturned
        /\ Len(ids) = Batch(text)
        /\ \A i \in 1..Batch(text) :
              /\ Len(ids[i]) = seq_len
              /\ \A j \in 1..seq_len : ids[i][j] = ExpectedId(text, i, j)

(***************************************************************************)
(* C5: when drop_text is set every id looked up is the filler id 0, n of   *)
(* them per row, whatever the tokens are, and the call's outcome (the ids, *)
(* the embedding, or the error) is that of a call with drop_text false on  *)
(* the text of the same shape that holds only the filler token -1.         *)
(***************************************************************************)
C5_DropTextLooksUpOnlyFiller ==
    (drop_text /\ tpc \in {"error", "done"}) =>
        LET ref == TextEmbeddingCall(FillerText(text), seq_len, FALSE, conv_layers)
        IN  /\ TextReturned =>
                /\ ref.status = "ok"
                /\ ids = ref.ids
                /\ tout = ref.out
                /\ Len(ids) = Batch(text)
                /\ \A i \in 1..Len(ids) :
                      Len(ids[i]) = seq_len /\ \A j \in 1..seq_len : ids[i][j] = 0
            /\ TextRaised => ref.status = "error"

C5_Witness ==
    /\ TextReturned /\ drop_text /\ seq_len >= 2 /\ Width(text) >= 1
    /\ \E i \in 1..Batch(text) : \E j \in 1..Width(text) : text[i][j] >= 0

(***************************************************************************)
(* C10: with tokens in -1 .. V-1 and nt <= n, every id looked up lies in   *)
(* 0 .. V, and id 0 is looked up only where the token was the filler -1,   *)
(* at a padded position, or when drop_text is set.                         *)
(***************************************************************************)
C10_IdsInTable ==
    (TextReturned /\ Width(text) <= seq_len) =>
        \A i \in 1..Len(ids) : \A j \in 1..Len(ids[i]) :
            /\ ids[i][j] \in 0..NumEmbeds
            /\ ids[i][j] = 0 =>
                  \/ drop_text
                  \/ j > Width(text)
                  \/ text[i][j] = -1

C10_Witness ==
    /\ TextReturned /\ ~drop_text /\ Width(text) >= 1 /\ Width(text) < seq_len
    /\ \E i \in 1..Batch(text) : \E j \in 1..Width(text) :
          text[i][j] = NumEmbeds - 1 /\ ids[i][j] = NumEmbeds
    /\ \E i \in 1..Batch(text) : \E j \in 1..Width(text) :
          text[i][j] = -1 /\ ids[i][j] = 0

(***************************************************************************)
(* Claims about the backbone.                                              *)
(***************************************************************************)
CallReturned == pc = "done"

CallRaised == pc = "error"

\* the fused sequence, from the arguments
Fused == InputEmbedding(x_in, cond, text_embed, drop_audio_cond)

\* what the last block returned (the fused sequence when no block has run)
LastBlockOut == IF block_log = <<>> THEN Fused ELSE block_log[Len(block_log)].out

(***************************************************************************)
(* C3: with every modulation projection zero, each DiTBlock returns        *)
(* exactly the x it received and AdaLayerNormZero_Final returns exactly    *)
(* norm(x), for every x, t, mask and rope.                                 *)
(***************************************************************************)
C3_ZeroModulationIsIdentity ==
    zero_mod =>
        /\ \A e \in 1..Len(block_log) : block_log[e].out = block_log[e].x
        /\ \A e \in 1..Len(final_log) :
              final_log[e].out =
                  [i \in 1..Len(final_log[e].x) |->
                      [j \in 1..Len(final_log[e].x[i]) |-> LayerNorm(final_log[e].x[i][j])]]

C3_Witness ==
    /\ zero_mod /\ CallReturned /\ Len(block_log) = 2 /\ mask.present
    /\ Batch(x_in) = 2 /\ seq_len = 2 /\ time.ndim = 1 /\ time.val[1] # time.val[2]

(***************************************************************************)
(* C4: a call with drop_audio_cond=True has the outcome of the call with   *)
(* cond replaced by zeros and drop_audio_cond=False, for either value of   *)
(* drop_text; the drop alters neither the text embedding nor the x that is *)
(* fused.                                                                  *)
(***************************************************************************)
C4_DropAudioCondIsZeroCond ==
    drop_audio_cond =>
        LET ref == DiTCall(long_skip, zero_mod, blocks, conv_layers, x_in,
                           ZerosLike(cond), text, time, FALSE, drop_text, mask)
            te  == TextEmbeddingCall(text, seq_len, drop_text, conv_layers)
        IN  /\ CallReturned => (ref.status = "ok" /\ output = ref.out)
            /\ CallRaised => ref.status = "error"
            /\ pc = "rope" =>
                  /\ text_embed = te.out
                  /\ x = InputEmbedding(x_in, ZerosLike(cond), te.out, FALSE)

C4_Witness ==
    /\ CallReturned /\ drop_audio_cond /\ blocks = 2
    /\ \E i \in 1..Len(cond) : \E j \in 1..Len(cond[i]) : cond[i][j] # 0
    /\ output # DiTCall(long_skip, zero_mod, blocks, conv_layers, x_in, cond, text,
                        time, FALSE, drop_text, mask).out

(***************************************************************************)
(* C6: a call with the scalar time s has the outcome of the call with the  *)
(* (b,) vector whose every entry is s; the scalar becomes exactly b equal  *)
(* entries before the time embedding, a (b,) vector is embedded as given.  *)
(***************************************************************************)
ScalarAsVector == [ndim |-> 1, val |-> [i \in 1..Batch(x_in) |-> time.val]]

C6_ScalarTimeIsConstantVector ==
    /\ (time.ndim = 0 /\ pc \in {"done", "error"}) =>
          LET ref == DiTCall(long_skip, zero_mod, blocks, conv_layers, x_in, cond,
                             text, ScalarAsVector, drop_audio_cond, drop_text, mask)
          IN  /\ CallReturned => (ref.status = "ok" /\ output = ref.out)
              /\ CallRaised => ref.status = "error"
    /\ time_calls > 0 =>
          /\ Len(t) = Batch(x_in)
          /\ time.ndim = 0 => t = TimestepEmbedding(ScalarAsVector.val)
          /\ time.ndim = 1 => t = TimestepEmbedding(time.val)

C6_Witness ==
    /\ CallReturned /\ time.ndim = 0 /\ time.val = 1 /\ Batch(x_in) = 2
    /\ blocks = 2 /\ ~zero_mod

(***************************************************************************)
(* C7 as stated: no DiT object with a non-positive depth is ever           *)
(* constructed (construction fails with a configuration error).            *)
(***************************************************************************)
C7_NonPositiveDepthRejected == pc # "new" => depth > 0

(***************************************************************************)
(* C7 as amended: DiT.__init__ checks nothing; with depth <= 0 it          *)
(* succeeds with an empty block list (depth blocks otherwise), and a call  *)
(* on such a backbone returns having run no block.                         *)
(***************************************************************************)
C7_NonPositiveDepthBuildsEmptyStack ==
    /\ pc # "new" => blocks = (IF depth > 0 THEN depth ELSE 0)
    /\ (CallReturned /\ depth <= 0) => (block_log = <<>> /\ Len(final_log) = 1)

C7_Witness == CallReturned /\ depth = -1 /\ output # <<>>

(***************************************************************************)
(* C8: in one call t and rope are each computed exactly once, before the   *)
(* first block runs; every block receives that t, that rope and the        *)
(* caller's mask, and the final modulation that t.                         *)
(***************************************************************************)
C8_ComputedOnceAndShared ==
    /\ time_calls <= 1 /\ rope_calls <= 1
    /\ (pc \in {"blocks", "norm", "proj", "done"} \/ block_log # <<>>) =>
          (time_calls = 1 /\ rope_calls = 1)
    /\ \A e \in 1..Len(block_log) :
          /\ block_log[e].t = t
          /\ block_log[e].rope = rope
          /\ block_log[e].mask = mask
    /\ \A e \in 1..Len(final_log) : final_log[e].t = t
    /\ CallReturned => (Len(block_log) = blocks /\ Len(final_log) = 1)

C8_Witness == CallReturned /\ Len(block_log) = 2 /\ mask.present /\ Batch(x_in) = 2

(***************************************************************************)
(* C9: the stages run in the order fusion, the blocks in list order (each  *)
(* once, on the previous block's output), the long-skip merge, the final   *)
(* modulation, the output projection.  With a long skip the residual is    *)
(* the fused sequence as it was before the first block and is merged as    *)
(* (x, residual); without one nothing is kept or merged and the final      *)
(* modulation receives the last block's output (with no block, the fused   *)
(* sequence).                                                              *)
(***************************************************************************)
ExpectedTrace ==
    <<"time_embed", "text_embed", "input_embed", "rope">>
    \o [e \in 1..blocks |-> "block"]
    \o (IF long_skip THEN <<"long_skip">> ELSE <<>>)
    \o <<"norm_out", "proj_out">>

C9_StageOrder ==
    /\ CallReturned =>
          /\ trace = ExpectedTrace
          /\ Len(block_log) = blocks
          /\ output = ProjOut(final_log[1].out)
    /\ \A e \in 1..Len(block_log) :
          /\ block_log[e].block = e
          /\ block_log[e].x = (IF e = 1 THEN Fused ELSE block_log[e - 1].out)
    /\ \A e \in 1..Len(final_log) :
          IF long_skip
          THEN /\ residual = Fused
               /\ final_log[e].x =
                     [i \in 1..Len(Fused) |-> [j \in 1..Len(Fused[i]) |->
                         SkipLinear(<<LastBlockOut[i][j], Fused[i][j]>>)]]
          ELSE /\ residual = <<>>
               /\ final_log[e].x = LastBlockOut

C9_Witness ==
    /\ CallReturned /\ long_skip /\ blocks = 2 /\ ~zero_mod
    /\ block_log[1].out # residual /\ block_log[2].out # block_log[1].out


====
